---- MODULE Spec2Model ----
(***************************************************************************)
(* Model of package pat (toqueteos/pat): the pattern matcher (pathMatch,   *)
(* pathMatchFlat, pathMatchSplat, parseSplats) and the route registry      *)
(* (ServeMux.Handle, ServeMux.match, ServeMux.handler).                    *)
(*                                                                         *)
(* Strings are sequences of one-character strings, so that Go's indexing,  *)
(* slicing, strings.Split, strings.Count, strings.Index and                *)
(* strings.HasPrefix are computed as the code computes them.               *)
(***************************************************************************)
EXTENDS Integers, Sequences, FiniteSets, TLC

VARIABLES
    mPattern,   \* matcher run: the pattern argument
    mPath,      \* matcher run: the path argument
    mStage,     \* matcher run: "input" | "matched" | "parsed"
    mMatched,   \* matcher run: the value pathMatch returned
    mSplats,    \* matcher run: the outcome of parseSplats
    m,          \* ServeMux.m : pattern -> muxEntry
    last,       \* the last completed Handle / handler call and its outcome
    mu,         \* ServeMux.mu : [writer, readers]
    pc,         \* per thread: position in Handle / handler
    loc         \* per thread: arguments and locals of the running call

vars == <<mPattern, mPath, mStage, mMatched, mSplats, m, last, mu, pc, loc>>

----------------------------------------------------------------------------
(* Bounds *)

MaxPatternLen == 4      \* matcher runs: longest pattern
MaxPathLen == 4         \* matcher runs: longest path
MaxRegLen == 3          \* registry: longest pattern passed to Handle
MaxReqLen == 3          \* registry: longest request path
MaxCalls == 2           \* registry: successful Handle calls per run
MaxConcCalls == 1       \* threads: successful Handle calls per run

PatternChars == {"/", "a", ":"}
PathChars == {"/", "a", "b"}

SeqsUpTo(S, n) == UNION {[1..k -> S] : k \in 0..n}

Patterns == SeqsUpTo(PatternChars, MaxPatternLen)
Paths == SeqsUpTo(PathChars, MaxPathLen)
RegPatterns == SeqsUpTo(PatternChars, MaxRegLen)
ReqPaths == SeqsUpTo(PathChars, MaxReqLen)
Hosts == {<<>>, <<"a">>}

----------------------------------------------------------------------------
(* Go string primitives *)

\* strings.Contains(s, ":")
Contains(s, c) == \E i \in 1..Len(s) : s[i] = c

\* strings.Count(s, "/")
Count(s, c) == Cardinality({i \in 1..Len(s) : s[i] = c})

\* strings.Index(s, ":"): 0-based index of the first occurrence, or -1
Index(s, c) ==
    IF Contains(s, c)
    THEN (CHOOSE i \in 1..Len(s) : s[i] = c /\ \A j \in 1..(i-1) : s[j] # c) - 1
    ELSE -1

\* strings.HasPrefix(s, prefix)
HasPrefix(s, prefix) ==
    Len(s) >= Len(prefix) /\ SubSeq(s, 1, Len(prefix)) = prefix

\* strings.Split(s, "/"): always at least one (possibly empty) item
RECURSIVE Split(_)
Split(s) ==
    IF s = <<>> THEN << <<>> >>
    ELSE LET rest == Split(Tail(s)) IN
         IF Head(s) = "/" THEN << <<>> >> \o rest
         ELSE << <<Head(s)>> \o Head(rest) >> \o Tail(rest)

----------------------------------------------------------------------------
(* Pattern matcher *)

pathMatchFlat_dropSlash(pattern, path) ==
    LET n == Len(pattern) IN
    IF pattern[n] # "/" THEN pattern = path
    ELSE \/ (Len(path) >= n /\ SubSeq(path, 1, n) = pattern)
         \/ path = SubSeq(pattern, 1, n - 1)

pathMatchFlat(pattern, path) ==
    LET n == Len(pattern) IN
    IF pattern[n] # "/" THEN pattern = path
    ELSE Len(path) >= n /\ SubSeq(path, 1, n) = pattern

\* one iteration of the loop of pathMatchSplat: FALSE is "return false"
splatItem(item, seg) ==
    LET index == Index(item, ":") IN
    CASE index = -1 -> item = seg
      [] index = 0  -> TRUE
      [] OTHER      -> HasPrefix(seg, SubSeq(item, 1, index))

pathMatchSplat(pattern, path) ==
    LET split == Split(pattern)
        count == Count(pattern, "/")
        leadingSlash == pattern[Len(pattern)] = "/"
        slashes == IF leadingSlash THEN count - 1 ELSE count
        _pattern == IF leadingSlash THEN SubSeq(split, 1, slashes) ELSE split
        _path == Split(path)
    IN  IF leadingSlash /\ Len(_path) <= slashes THEN FALSE
        ELSE IF ~leadingSlash /\ Count(path, "/") # slashes THEN FALSE
        ELSE \A i \in 1..Len(_pattern) : splatItem(_pattern[i], _path[i])

pathMatch(pattern, path) ==
    IF Len(pattern) = 0 THEN FALSE
    ELSE IF Contains(pattern, ":") THEN pathMatchSplat(pattern, path)
    ELSE pathMatchFlat(pattern, path)

\* url.Values.Add: append to the values of key
Add(values, key, value) ==
    IF key \in DOMAIN values
    THEN [values EXCEPT ![key] = Append(@, value)]
    ELSE values @@ (key :> <<value>>)

NoValues == [k \in {} |-> <<>>]

\* outcome of parseSplats: nil, a url.Values, or a run-time panic
SplatsNil == [kind |-> "nil", values |-> NoValues]
SplatsPanic == [kind |-> "panic", values |-> NoValues]
SplatsOf(values) == [kind |-> "values", values |-> values]

\* the loop of parseSplats from item i on; reading _path[i] past the end of
\* _path, or slicing _path[i][index:] past the end of the segment, panics
RECURSIVE parseLoop(_, _, _, _)
parseLoop(_pattern, _path, i, values) ==
    IF i > Len(_pattern) THEN SplatsOf(values)
    ELSE LET item == _pattern[i]
             index == Index(item, ":")
         IN  CASE index = -1 -> parseLoop(_pattern, _path, i + 1, values)
               [] index = 0  ->
                    IF i > Len(_path) THEN SplatsPanic
                    ELSE parseLoop(_pattern, _path, i + 1,
                                   Add(values, item, _path[i]))
               [] OTHER      ->
                    IF i > Len(_path) \/ index > Len(_path[i]) THEN SplatsPanic
                    ELSE parseLoop(_pattern, _path, i + 1,
                                   Add(values,
                                       SubSeq(item, index + 1, Len(item)),
                                       SubSeq(_path[i], index + 1, Len(_path[i]))))

parseSplats(pattern, path) ==
    IF ~Contains(pattern, ":") THEN SplatsNil
    ELSE parseLoop(Split(pattern), Split(path), 1, NoValues)

\* the parts of the state a specification does not exercise stay idle
NoRun == [kind |-> "none", values |-> NoValues]

MatcherIdle ==
    /\ mPattern = <<>> /\ mPath = <<>> /\ mStage = "idle"
    /\ mMatched = FALSE /\ mSplats = NoRun

RegistryIdle ==
    /\ m = [k \in {} |-> 0]
    /\ last = [op |-> "none"]

Writers == {"w1", "w2"}
Readers == {"r1"}
Threads == Writers \cup Readers

NoCall == [op |-> "none"]

ThreadsIdle ==
    /\ mu = [writer |-> "none", readers |-> {}]
    /\ pc = [t \in Threads |-> "idle"]
    /\ loc = [t \in Threads |-> NoCall]

----------------------------------------------------------------------------
(* Route registry *)

\* http.Handler values: nil, the handler a caller registers for a pattern,
\* RedirectHandler(pattern, 301), NotFoundHandler()
Nil == [kind |-> "nil", target |-> <<>>]
UserHandler(pattern) == [kind |-> "user", target |-> pattern]
RedirectHandler(pattern) == [kind |-> "redirect", target |-> pattern]
NotFoundHandler == [kind |-> "notfound", target |-> <<>>]

\* mux.m[pattern].explicit: a missing key reads as the zero muxEntry
Explicit(mm, pattern) == pattern \in DOMAIN mm /\ mm[pattern].explicit

\* mux.m[pattern] = entry
MapSet(mm, pattern, entry) ==
    [k \in DOMAIN mm \cup {pattern} |-> IF k = pattern THEN entry ELSE mm[k]]

HandlePanics_noDuplicateCheck(mm, pattern, handler) ==
    \/ pattern = <<>>
    \/ handler = Nil

\* the three panics of Handle
HandlePanics(mm, pattern, handler) ==
    \/ pattern = <<>>
    \/ handler = Nil
    \/ Explicit(mm, pattern)

\* mux.m[pattern] = muxEntry{explicit: true, h: handler}
StoreExplicit(mm, pattern, handler) ==
    MapSet(mm, pattern, [explicit |-> TRUE, h |-> handler])

StoreImplicit_unguarded(mm, pattern) ==
    LET n == Len(pattern) IN
    IF n > 0 /\ pattern[n] = "/"
    THEN MapSet(mm, SubSeq(pattern, 1, n - 1),
                [explicit |-> FALSE, h |-> RedirectHandler(pattern)])
    ELSE mm

\* the implicit permanent redirect for a pattern ending in '/'
StoreImplicit(mm, pattern) ==
    LET n == Len(pattern) IN
    IF n > 0 /\ pattern[n] = "/" /\ ~Explicit(mm, SubSeq(pattern, 1, n - 1))
    THEN MapSet(mm, SubSeq(pattern, 1, n - 1),
                [explicit |-> FALSE, h |-> RedirectHandler(pattern)])
    ELSE mm

\* the registry a Handle call that does not panic leaves behind
Registered(mm, pattern, handler) ==
    StoreImplicit(StoreExplicit(mm, pattern, handler), pattern)

\* the orders in which `range mux.m` may visit a set of keys
Orders(S) ==
    {o \in [1..Cardinality(S) -> S] :
        \A i, j \in 1..Cardinality(S) : o[i] = o[j] => i = j}

\* the keys the loop of match does not skip with `continue`
Matching(mm, path) == {k \in DOMAIN mm : pathMatch(k, path)}

NoMatch == [n |-> 0, pattern |-> <<>>, h |-> Nil]

matchLoop_lastWins(mm, k, acc) ==
    [n |-> Len(k), pattern |-> k, h |-> mm[k].h]

\* the body of the loop of match for a key k that matches
matchLoop(mm, k, acc) ==
    IF acc.h = Nil \/ Len(k) > acc.n
    THEN [n |-> Len(k), pattern |-> k, h |-> mm[k].h]
    ELSE acc

RECURSIVE matchFrom(_, _, _, _)
matchFrom(mm, order, i, acc) ==
    IF i > Len(order) THEN acc
    ELSE matchFrom(mm, order, i + 1, matchLoop(mm, order[i], acc))

\* ServeMux.match: (pattern, h) for every order `range mux.m` may take; only
\* the relative order of the matching keys bears on the result
match(mm, path) ==
    {[pattern |-> r.pattern, h |-> r.h] :
        r \in {matchFrom(mm, o, 1, NoMatch) : o \in Orders(Matching(mm, path))}}

NoResult == [pattern |-> <<>>, h |-> Nil]

handlerSecondScan_always(first) == TRUE

\* `if h == nil` after the Host+Path scan
handlerSecondScan(first) == first.h = Nil

\* the else branch of handler: parseSplats on the chosen pattern
handlerParams(chosen, path) ==
    IF chosen.h = Nil THEN SplatsNil
    ELSE parseSplats(chosen.pattern, path)

\* ServeMux.handler on request (host, path), given what the scans returned
handlerOutcome(host, path, first, second) ==
    LET rescan == handlerSecondScan(first)
        chosen == IF rescan THEN second ELSE first
        params == handlerParams(chosen, path)
    IN  [op |-> "handler", host |-> host, path |-> path,
         first |-> first, rescan |-> rescan, second |-> second,
         pattern |-> chosen.pattern,
         params |-> params,
         panicked |-> params.kind = "panic",
         h |-> IF params.kind = "panic" THEN Nil
               ELSE IF chosen.h = Nil THEN NotFoundHandler
               ELSE chosen.h]

\* successful Handle calls so far: each adds exactly one explicit entry
NumExplicit(mm) == Cardinality({k \in DOMAIN mm : mm[k].explicit})

\* a run makes at most max calls that register; calls that the checks of
\* Handle refuse are not limited
WithinCalls(mm, pattern, h, max) ==
    \/ pattern = <<>>
    \/ h = Nil
    \/ Explicit(mm, pattern)
    \/ NumExplicit(mm) < max

\* handlers are opaque: a call passes nil or the caller's handler for the
\* pattern
HandlerArgs(pattern) == {Nil, UserHandler(pattern)}

InitRegistry ==
    /\ MatcherIdle
    /\ RegistryIdle
    /\ ThreadsIdle

\* ServeMux.Handle(pattern, handler), start to finish
Handle ==
    /\ last.op = "none"
    /\ \E pattern \in RegPatterns :
       \E handler \in HandlerArgs(pattern) :
        /\ WithinCalls(m, pattern, handler, MaxCalls)
        /\ m' = IF HandlePanics(m, pattern, handler) THEN m
                ELSE Registered(m, pattern, handler)
        /\ last' = [op |-> "Handle", pattern |-> pattern, handler |-> handler,
                    panicked |-> HandlePanics(m, pattern, handler)]
        /\ UNCHANGED <<mPattern, mPath, mStage, mMatched, mSplats, mu, pc, loc>>

\* ServeMux.handler(r), start to finish
handler ==
    /\ last.op = "none"
    /\ \E host \in Hosts, path \in ReqPaths :
        \E first \in match(m, host \o path) :
            \E second \in IF handlerSecondScan(first) THEN match(m, path)
                          ELSE {NoResult} :
                /\ last' = handlerOutcome(host, path, first, second)
                /\ UNCHANGED <<mPattern, mPath, mStage, mMatched, mSplats,
                               m, mu, pc, loc>>

\* the call has returned (or its panic has unwound) to the caller
Return ==
    /\ last.op # "none"
    /\ last' = [op |-> "none"]
    /\ UNCHANGED <<mPattern, mPath, mStage, mMatched, mSplats, m, mu, pc, loc>>

Next == Handle \/ handler \/ Return

Spec == InitRegistry /\ [][Next]_vars

----------------------------------------------------------------------------
(* Handle and handler step by step, on threads sharing mux.mu and mux.m *)

InitConc ==
    /\ MatcherIdle
    /\ RegistryIdle
    /\ ThreadsIdle

\* mux.mu.Lock() at the start of Handle(pattern, handler)
HandleLock(t) ==
    /\ pc[t] = "idle"
    /\ mu.writer = "none"
    /\ mu.readers = {}
    /\ \E pattern \in RegPatterns :
       \E h \in HandlerArgs(pattern) :
        /\ WithinCalls(m, pattern, h, MaxConcCalls)
        /\ loc' = [loc EXCEPT ![t] = [op |-> "Handle", pattern |-> pattern,
                                      handler |-> h, before |-> m,
                                      panicked |-> FALSE]]
    /\ mu' = [mu EXCEPT !.writer = t]
    /\ pc' = [pc EXCEPT ![t] = "check"]
    /\ UNCHANGED <<mPattern, mPath, mStage, mMatched, mSplats, m, last>>

\* the three checks of Handle; a panic unwinds to the deferred Unlock
HandleCheck(t) ==
    /\ pc[t] = "check"
    /\ IF HandlePanics(m, loc[t].pattern, loc[t].handler)
       THEN /\ loc' = [loc EXCEPT ![t].panicked = TRUE]
            /\ pc' = [pc EXCEPT ![t] = "unlock"]
       ELSE /\ loc' = loc
            /\ pc' = [pc EXCEPT ![t] = "explicit"]
    /\ UNCHANGED <<mPattern, mPath, mStage, mMatched, mSplats, m, last, mu>>

\* mux.m[pattern] = muxEntry{explicit: true, h: handler}
HandleStoreExplicit(t) ==
    /\ pc[t] = "explicit"
    /\ m' = StoreExplicit(m, loc[t].pattern, loc[t].handler)
    /\ pc' = [pc EXCEPT ![t] = "implicit"]
    /\ UNCHANGED <<mPattern, mPath, mStage, mMatched, mSplats, last, mu, loc>>

\* the implicit redirect for the pattern less its trailing slash
HandleStoreImplicit(t) ==
    /\ pc[t] = "implicit"
    /\ m' = StoreImplicit(m, loc[t].pattern)
    /\ pc' = [pc EXCEPT ![t] = "unlock"]
    /\ UNCHANGED <<mPattern, mPath, mStage, mMatched, mSplats, last, mu, loc>>

\* the deferred mux.mu.Unlock(); Handle returns or its panic propagates
HandleUnlock(t) ==
    /\ pc[t] = "unlock"
    /\ mu' = [mu EXCEPT !.writer = "none"]
    /\ pc' = [pc EXCEPT ![t] = "idle"]
    /\ loc' = [loc EXCEPT ![t] = NoCall]
    /\ last' = [op |-> "Handle", panicked |-> loc[t].panicked]
    /\ UNCHANGED <<mPattern, mPath, mStage, mMatched, mSplats, m>>

handlerRLock_noLock(t) ==
    /\ pc[t] = "idle"
    /\ \E host \in Hosts, path \in ReqPaths :
        loc' = [loc EXCEPT ![t] = [op |-> "handler", host |-> host,
                                   path |-> path]]
    /\ pc' = [pc EXCEPT ![t] = "scan1"]
    /\ UNCHANGED <<mPattern, mPath, mStage, mMatched, mSplats, m, last, mu>>

\* mux.mu.RLock() at the start of handler(r)
handlerRLock(t) ==
    /\ pc[t] = "idle"
    /\ mu.writer = "none"
    /\ \E host \in Hosts, path \in ReqPaths :
        loc' = [loc EXCEPT ![t] = [op |-> "handler", host |-> host,
                                   path |-> path]]
    /\ mu' = [mu EXCEPT !.readers = @ \cup {t}]
    /\ pc' = [pc EXCEPT ![t] = "scan1"]
    /\ UNCHANGED <<mPattern, mPath, mStage, mMatched, mSplats, m, last>>

\* mux.match(r.Host + r.URL.Path); seen1 is the registry the scan ranged over
handlerScan1(t) ==
    /\ pc[t] = "scan1"
    /\ \E first \in match(m, loc[t].host \o loc[t].path) :
        /\ loc' = [loc EXCEPT ![t] =
                    [op |-> "handler", host |-> loc[t].host,
                     path |-> loc[t].path, first |-> first, seen1 |-> m]]
        /\ pc' = [pc EXCEPT ![t] = IF handlerSecondScan(first) THEN "scan2"
                                   ELSE "params"]
    /\ UNCHANGED <<mPattern, mPath, mStage, mMatched, mSplats, m, last, mu>>

\* mux.match(r.URL.Path); seen2 is the registry the scan ranged over
handlerScan2(t) ==
    /\ pc[t] = "scan2"
    /\ \E second \in match(m, loc[t].path) :
        loc' = [loc EXCEPT ![t] =
                    [op |-> "handler", host |-> loc[t].host,
                     path |-> loc[t].path, first |-> loc[t].first,
                     seen1 |-> loc[t].seen1,
                     second |-> second, seen2 |-> m]]
    /\ pc' = [pc EXCEPT ![t] = "params"]
    /\ UNCHANGED <<mPattern, mPath, mStage, mMatched, mSplats, m, last, mu>>

\* parseSplats or NotFoundHandler, then the deferred mux.mu.RUnlock()
handlerReturn(t) ==
    /\ pc[t] = "params"
    /\ mu' = [mu EXCEPT !.readers = @ \ {t}]
    /\ pc' = [pc EXCEPT ![t] = "idle"]
    /\ loc' = [loc EXCEPT ![t] = NoCall]
    /\ UNCHANGED <<mPattern, mPath, mStage, mMatched, mSplats, m, last>>

NextConc ==
    \/ \E t \in Writers :
        \/ HandleLock(t)
        \/ HandleCheck(t)
        \/ HandleStoreExplicit(t)
        \/ HandleStoreImplicit(t)
        \/ HandleUnlock(t)
    \/ \E t \in Readers :
        \/ handlerRLock(t)
        \/ handlerScan1(t)
        \/ handlerScan2(t)
        \/ handlerReturn(t)

SpecConc == InitConc /\ [][NextConc]_vars

----------------------------------------------------------------------------
(* Matcher runs: pathMatch, then parseSplats on a match, on every pair *)

InitMatch ==
    /\ mPattern \in Patterns
    /\ mPath \in Paths
    /\ mStage = "input"
    /\ mMatched = FALSE
    /\ mSplats = NoRun
    /\ RegistryIdle
    /\ ThreadsIdle

RunPathMatch ==
    /\ mStage = "input"
    /\ mMatched' = pathMatch(mPattern, mPath)
    /\ mStage' = "matched"
    /\ UNCHANGED <<mPattern, mPath, mSplats, m, last, mu, pc, loc>>

RunParseSplats ==
    /\ mStage = "matched"
    /\ mMatched
    /\ mSplats' = parseSplats(mPattern, mPath)
    /\ mStage' = "parsed"
    /\ UNCHANGED <<mPattern, mPath, mMatched, m, last, mu, pc, loc>>

NextMatch == RunPathMatch \/ RunParseSplats

SpecMatch == InitMatch /\ [][NextMatch]_vars

----------------------------------------------------------------------------
(* Properties of the matcher *)

EndsInSlash(s) == Len(s) > 0 /\ s[Len(s)] = "/"

\* s without its last character
DropLast(s) == SubSeq(s, 1, Len(s) - 1)

\* path = pattern followed by anything
StartsWith(path, pattern) ==
    \E k \in 0..Len(path) : SubSeq(path, 1, k) = pattern

FlatPrefixRun ==
    /\ mStage # "input"
    /\ EndsInSlash(mPattern)
    /\ ~Contains(mPattern, ":")

RefSegment(item, seg) ==
    IF ~Contains(item, ":") THEN item = seg
    ELSE IF item[1] = ":" THEN TRUE
    ELSE \E k \in 1..Len(item) :
            /\ item[k] = ":"
            /\ \A j \in 1..(k-1) : item[j] # ":"
            /\ StartsWith(seg, SubSeq(item, 1, k - 1))

\* the reference rule of C4: arity, then every remaining pattern segment
RefMatch(pattern, path) ==
    LET P == Split(pattern)
        Q == Split(path)
        T == IF EndsInSlash(pattern) THEN DropLast(P) ELSE P
    IN  /\ IF EndsInSlash(pattern) THEN Len(Q) >= Len(T) ELSE Len(Q) = Len(P)
        /\ \A i \in 1..Len(T) : RefSegment(T[i], Q[i])

\* C4: for every pattern containing ':' and every path, pathMatch equals the
\* reference rule (exact arity without a trailing slash, at least the arity
\* of the pattern less its final empty segment with one, and every remaining
\* pattern segment satisfied by the path segment at the same index).
C4_MatchesReference ==
    (mStage # "input" /\ Contains(mPattern, ":")) =>
        (mMatched <=> RefMatch(mPattern, mPath))

\* the bindings C9 describes: every pattern segment with ':' binds its name
\* to the rest of the path segment at the same index, in segment order
RefCaptures(pattern, path) ==
    LET P == Split(pattern)
        Q == Split(path)
        idx == {i \in 1..Len(P) : Contains(P[i], ":")}
        name(i) == SubSeq(P[i], Index(P[i], ":") + 1, Len(P[i]))
        value(i) == SubSeq(Q[i], Index(P[i], ":") + 1, Len(Q[i]))
        of(n) == {i \in idx : name(i) = n}
        nth(S, j) == CHOOSE i \in S : Cardinality({k \in S : k < i}) = j - 1
    IN  [n \in {name(i) : i \in idx} |->
            [j \in 1..Cardinality(of(n)) |-> value(nth(of(n), j))]]

\* C9: on a match of a pattern with ':', parseSplats binds each capture name
\* to the value of the path segment at the same index (whole segment for a
\* bare capture, the part beyond the prefix length for a prefixed one),
\* accumulating repeated names; no value contains '/'; a pattern without ':'
\* yields no captures.
C9_CapturesBound ==
    mStage = "parsed" =>
        IF Contains(mPattern, ":")
        THEN /\ mSplats.kind = "values"
             /\ mSplats.values = RefCaptures(mPattern, mPath)
             /\ \A n \in DOMAIN mSplats.values :
                    \A j \in 1..Len(mSplats.values[n]) :
                        ~Contains(mSplats.values[n][j], "/")
        ELSE mSplats = SplatsNil

----------------------------------------------------------------------------
(* Properties of the registry *)

Resolved == last.op = "handler"

\* what C1 asks of one scan: r is what match returned for string str
LongestMatch(r, str) ==
    IF r.h = Nil
    THEN \A k \in DOMAIN m : ~pathMatch(k, str)
    ELSE /\ r.pattern \in DOMAIN m
         /\ r.h = m[r.pattern].h
         /\ pathMatch(r.pattern, str)
         /\ \A k \in DOMAIN m : pathMatch(k, str) => Len(k) <= Len(r.pattern)

\* C1: match(s) returns a registered pattern that matches s and is at least
\* as long as every other registered pattern that matches s, and returns no
\* handler only when no registered pattern matches s.
C1_LongestWins ==
    Resolved =>
        /\ LongestMatch(last.first, last.host \o last.path)
        /\ last.rescan => LongestMatch(last.second, last.path)

C1_Witness ==
    /\ Resolved
    /\ last.first.h # Nil
    /\ \E k \in DOMAIN m :
        /\ pathMatch(k, last.host \o last.path)
        /\ Len(k) < Len(last.first.pattern)

\* C2: if some registered pattern matches Host+Path the chosen pattern is a
\* longest one matching Host+Path (even if a longer one matches Path alone);
\* otherwise it is a longest one matching Path; the returned handler is the
\* chosen pattern's, and the not-found handler is returned only when neither
\* scan matches.
C2_HostFirst ==
    Resolved =>
        LET byHost == {k \in DOMAIN m : pathMatch(k, last.host \o last.path)}
            byPath == {k \in DOMAIN m : pathMatch(k, last.path)}
            from == IF byHost # {} THEN byHost ELSE byPath
        IN  /\ from # {} =>
                /\ last.pattern \in from
                /\ \A k \in from : Len(k) <= Len(last.pattern)
                /\ ~last.panicked => last.h = m[last.pattern].h
            /\ from = {} => last.h = NotFoundHandler
            /\ last.h = NotFoundHandler => (byHost = {} /\ byPath = {})

C2_Witness ==
    /\ Resolved
    /\ last.host # <<>>
    /\ ~last.panicked
    /\ pathMatch(last.pattern, last.host \o last.path)
    /\ last.h = m[last.pattern].h
    /\ \E k \in DOMAIN m :
        /\ pathMatch(k, last.path)
        /\ Len(k) > Len(last.pattern)

\* C5: resolution is total: handler always returns the handler of a
\* registered pattern or the not-found handler and never panics; parseSplats
\* on the chosen pattern only reads path segments and offsets that exist.
C5_Total ==
    Resolved =>
        /\ ~last.panicked
        /\ \/ last.h = NotFoundHandler
           \/ \E k \in DOMAIN m : last.h = m[k].h

Slash(pattern) == pattern \o <<"/">>

\* the request of the last resolution is matched by no registered pattern
\* other than P and P+"/"
OnlyMatches(P) ==
    \A k \in DOMAIN m :
        (pathMatch(k, last.host \o last.path) \/ pathMatch(k, last.path))
            => k \in {P, Slash(P)}

\* C7, resolving: for a capture-free pattern P, while P+"/" is registered and
\* P is not explicitly registered, resolving path P yields the permanent
\* redirect to P+"/" (not the handler of P+"/", not not-found); once P is
\* explicitly registered, resolving path P yields P's handler.
C7_Resolving ==
    \A P \in RegPatterns \ {<<>>} :
        (/\ Resolved
         /\ last.path = P
         /\ ~Contains(P, ":")
         /\ Explicit(m, Slash(P))
         /\ OnlyMatches(P))
        => IF Explicit(m, P)
           THEN last.h = m[P].h /\ last.h = UserHandler(P)
           ELSE last.h = RedirectHandler(Slash(P))

\* C7, registering: Handle(P, h) on a P that has only the implicit redirect
\* does not panic and makes h the explicit entry of P.
C7_Registering ==
    (/\ last.op = "none"
     /\ last'.op = "Handle"
     /\ last'.handler # Nil
     /\ last'.pattern \in DOMAIN m
     /\ ~m[last'.pattern].explicit
     /\ last'.pattern # <<>>)
    => /\ ~last'.panicked
       /\ m'[last'.pattern] = [explicit |-> TRUE, h |-> last'.handler]

\* C7: after Handle(P+"/", h1) with no explicit P, resolving P yields the
\* implicit permanent redirect to P+"/"; a later Handle(P, h2) succeeds and
\* from then on resolving P yields h2.
C7_RedirectThenOverride == [] C7_Resolving /\ [][C7_Registering]_vars

C7_Witness ==
    \E P \in RegPatterns \ {<<>>} :
        /\ Resolved
        /\ last.path = P
        /\ ~Contains(P, ":")
        /\ Explicit(m, Slash(P))
        /\ ~Explicit(m, P)
        /\ OnlyMatches(P)
        /\ last.h = RedirectHandler(Slash(P))

\* an explicit entry is in the registry for good, unchanged
C10_Stable ==
    \A k \in DOMAIN m :
        m[k].explicit => (k \in DOMAIN m' /\ m'[k] = m[k])

\* Handle on a pattern that has an explicit entry panics
C10_Refused ==
    (last.op = "none" /\ last'.op = "Handle" /\ Explicit(m, last'.pattern))
        => (last'.panicked /\ m' = m)

\* registering P and P+"/" after the current registry gives the same registry
\* in either order (asked once per registry, between calls)
C10_EitherOrder ==
    last.op = "none" =>
    \A P \in RegPatterns \ {<<>>} :
        LET h1 == UserHandler(Slash(P))
            h2 == UserHandler(P)
        IN  (~Explicit(m, P) /\ ~Explicit(m, Slash(P))) =>
                Registered(Registered(m, P, h2), Slash(P), h1)
                    = Registered(Registered(m, Slash(P), h1), P, h2)

\* C10: an explicit entry is never changed: its handler and flag stay, a
\* later Handle(P) panics, a later Handle(P+"/") does not replace it with the
\* implicit redirect; so P and P+"/" may be registered in either order.
C10_ExplicitForGood ==
    [] C10_EitherOrder /\ [][C10_Stable /\ C10_Refused]_vars

C10_Witness ==
    \E P \in RegPatterns \ {<<>>} :
        /\ last.op = "Handle"
        /\ last.pattern = Slash(P)
        /\ ~last.panicked
        /\ Explicit(m, Slash(P))
        /\ m[P] = [explicit |-> TRUE, h |-> UserHandler(P)]

----------------------------------------------------------------------------
(* Properties of Handle and handler running on threads *)

InHandle(t) == pc[t] \in {"check", "explicit", "implicit", "unlock"}

Complete(mm) ==
    \A k \in DOMAIN mm :
        (mm[k].explicit /\ EndsInSlash(k)) => DropLast(k) \in DOMAIN mm

\* C8: no scan of a resolver ranges over a registry in which the explicit
\* entry of P+"/" is present while the entry of P is missing, and both scans
\* of one resolution range over the same registry.
C8_RegistrationAtomic ==
    \A t \in Readers :
        /\ pc[t] \in {"scan2", "params"} => Complete(loc[t].seen1)
        /\ (pc[t] = "params" /\ "seen2" \in DOMAIN loc[t]) =>
            loc[t].seen2 = loc[t].seen1

C8_Witness ==
    \E t \in Readers :
        /\ pc[t] = "params"
        /\ "seen2" \in DOMAIN loc[t]
        /\ \E k \in DOMAIN loc[t].seen2 :
            /\ loc[t].seen2[k].explicit
            /\ EndsInSlash(k)
            /\ Len(k) > 1
            /\ ~loc[t].seen2[DropLast(k)].explicit

====
